---- MODULE Spec2Model ----
(***************************************************************************)
(* Model of the farmer_helpdesk core:                                      *)
(*   - src/app/api/plant-disease/route.ts : POST and getFallbackAnalysis   *)
(*   - src/unnamed/part_000 (AICallAgentModal) : the chat / voice modal    *)
(*                                                                         *)
(* Strings are sequences of word tokens (the empty string is <<>>), so     *)
(* that JSON.parse, String.match, String.includes, Array.join and          *)
(* String.trim are computed on their argument instead of being assumed.    *)
(***************************************************************************)
EXTENDS Integers, Sequences, FiniteSets, TLC

\* ------------------------------------------------------------------ bounds
\* Largest value of the wall clock read by new Date() in the route.
MaxTime == 2

\* ------------------------------------------------------------ JSON values
\* A JSON / JS value: t is its type tag; s holds a string's tokens, n a
\* number (confidence is kept in hundredths: 0.85 is 85) or a boolean
\* (1 / 0), a the elements of an array of strings.
Undef == [t |-> "undef", s |-> <<>>, n |-> 0, a |-> <<>>]
Null == [t |-> "null", s |-> <<>>, n |-> 0, a |-> <<>>]
Str(x) == [t |-> "str", s |-> x, n |-> 0, a |-> <<>>]
Num(x) == [t |-> "num", s |-> <<>>, n |-> x, a |-> <<>>]
Bool(b) == [t |-> "bool", s |-> <<>>, n |-> IF b THEN 1 ELSE 0, a |-> <<>>]
Arr(x) == [t |-> "arr", s |-> <<>>, n |-> 0, a |-> x]

\* JS truthiness, as used by `!x` and `x || y`.
Truthy(v) ==
  CASE v.t = "str" -> v.s # <<>>
    [] v.t = "num" -> v.n # 0
    [] v.t = "bool" -> v.n = 1
    [] v.t = "arr" -> TRUE
    [] OTHER -> FALSE

\* Array.isArray(v)
IsArray(v) == v.t = "arr"

\* An object is a function from its keys to values; NoObj has no key.
NoObj == [k \in {} |-> Undef]

\* { ...base, ...ext }: the keys of ext win.
Spread(base, ext) ==
  [k \in DOMAIN base \cup DOMAIN ext |->
     IF k \in DOMAIN ext THEN ext[k] ELSE base[k]]

\* o.key on an object (undefined when the key is absent).
Get(o, key) == IF key \in DOMAIN o THEN o[key] ELSE Undef

\* The result of parsing a JSON text: kind is "throw" for a SyntaxError,
\* else the type of the parsed value; obj holds the members of an object.
Parsed(kind, obj) == [kind |-> kind, obj |-> obj]

\* The member each member token of a JSON text stands for.
MemberTokens ==
  {"d", "d0", "dn", "c", "cs", "sA", "sS", "t", "p", "fm", "lg", "ag", "ts"}

MemberKey(tok) ==
  CASE tok \in {"d", "d0", "dn"} -> "disease"
    [] tok \in {"c", "cs"} -> "confidence"
    [] tok \in {"sA", "sS"} -> "symptoms"
    [] tok = "t" -> "treatment"
    [] tok = "p" -> "prevention"
    [] tok = "fm" -> "fallbackMode"
    [] tok = "lg" -> "language"
    [] tok = "ag" -> "aiGeneratedTreatment"
    [] OTHER -> "analysisTimestamp"

MemberVal(tok) ==
  CASE tok = "d" -> Str(<<"Leaf", "Blight">>)
    [] tok = "d0" -> Str(<<>>)
    [] tok = "dn" -> Num(7)
    [] tok = "c" -> Num(90)
    [] tok = "cs" -> Str(<<"high">>)
    [] tok = "sA" -> Arr(<< <<"yellow", "spots">>, <<"wilting">> >>)
    [] tok = "sS" -> Str(<<"yellow", "spots">>)
    [] tok = "t" -> Arr(<< <<"fungicide">> >>)
    [] tok = "p" -> Arr(<< <<"rotate", "crops">> >>)
    [] tok = "fm" -> Bool(TRUE)
    [] tok = "lg" -> Str(<<"fr">>)
    [] tok = "ag" -> Str(<<"model", "advice">>)
    [] OTHER -> Str(<<"yesterday">>)

\* JSON.parse(text) on a token text: `null`, a number, or an object
\* `{ member ... }`; anything else (prose, unbalanced braces) throws.
\* A repeated key keeps its last member.
JSONparse(text) ==
  IF text = <<"null">> THEN Parsed("null", NoObj)
  ELSE IF text = <<"5">> THEN Parsed("num", NoObj)
  ELSE IF /\ Len(text) >= 2
          /\ text[1] = "{"
          /\ text[Len(text)] = "}"
          /\ \A i \in 2..(Len(text) - 1) : text[i] \in MemberTokens
  THEN LET keys == {MemberKey(text[i]) : i \in 2..(Len(text) - 1)}
           last(k) == CHOOSE i \in 2..(Len(text) - 1) :
                        /\ MemberKey(text[i]) = k
                        /\ \A j \in 2..(Len(text) - 1) :
                             MemberKey(text[j]) = k => j <= i
       IN Parsed("obj", [k \in keys |-> MemberVal(text[last(k)])])
  ELSE Parsed("throw", NoObj)

\* Mutant of MatchBraces: a lazy quantifier, the span from the first "{" to
\* the first "}" after it.
MatchBraces_Lazy(text) ==
  LET opens == {i \in 1..Len(text) : text[i] = "{"}
      first == CHOOSE i \in opens : \A j \in opens : i <= j
      closes == {i \in 1..Len(text) : text[i] = "}" /\ i > first}
      last == CHOOSE i \in closes : \A j \in closes : i <= j
  IN IF opens = {} THEN <<>>
     ELSE IF closes = {} THEN <<>>
     ELSE SubSeq(text, first, last)

\* text.match(/\{[\s\S]*\}/): the span from the first "{" to the last "}"
\* (the quantifier is greedy); <<>> stands for the null of no match.
MatchBraces(text) ==
  LET opens == {i \in 1..Len(text) : text[i] = "{"}
      first == CHOOSE i \in opens : \A j \in opens : i <= j
      closes == {i \in 1..Len(text) : text[i] = "}" /\ i > first}
      last == CHOOSE i \in closes : \A j \in closes : j <= i
  IN IF opens = {} THEN <<>>
     ELSE IF closes = {} THEN <<>>
     ELSE SubSeq(text, first, last)

\* text.includes(word)
Includes(text, word) == \E i \in 1..Len(text) : text[i] = word

\* `${v}` in a template literal.
ToText(v) ==
  CASE v.t = "str" -> v.s
    [] v.t = "num" -> <<ToString(v.n)>>
    [] OTHER -> <<v.t>>

\* arr.join(', ')
RECURSIVE Join(_)
Join(arr) ==
  IF arr = <<>> THEN <<>>
  ELSE IF Len(arr) = 1 THEN arr[1]
  ELSE arr[1] \o <<",">> \o Join(Tail(arr))


\* ------------------------------------------------- the route's environment
\* The JSON body of the request as request.json() delivers it: a body that
\* is not JSON makes it throw, otherwise it is null, a number or an object
\* with any of the members imageBase64 and language.
Image == <<"data:image/png;base64">>

RequestObjects ==
  {NoObj,
   [k \in {"language"} |-> Str(<<"hi">>)],
   [k \in {"imageBase64"} |-> Str(<<>>)],
   [k \in {"imageBase64"} |-> Str(Image)],
   [k \in {"imageBase64", "language"} |->
      IF k = "imageBase64" THEN Str(<<>>) ELSE Str(<<"en">>)],
   [k \in {"imageBase64", "language"} |->
      IF k = "imageBase64" THEN Str(Image) ELSE Str(<<"hi">>)],
   [k \in {"imageBase64", "language"} |->
      IF k = "imageBase64" THEN Str(Image) ELSE Str(<<"kn">>)]}

RequestBodies ==
  {Parsed("throw", NoObj), Parsed("null", NoObj), Parsed("num", NoObj)}
    \cup {Parsed("obj", o) : o \in RequestObjects}

\* process.env.GROQ_API_KEY: unset, empty or set.
ApiKeys == {Undef, Str(<<>>), Str(<<"gsk_key">>)}

\* What one upstream fetch + response.json() delivers.  net = "error" is a
\* rejected fetch (transport error).  Otherwise ok is response.ok and json
\* tells whether the body is not JSON ("unparseable"), the JSON null or a
\* JSON object, of which content is choices[0].message.content and errmsg
\* is error.message (Undef when the path is absent).
Reply(net, ok, json, content, errmsg) ==
  [net |-> net, ok |-> ok, json |-> json, content |-> content, errmsg |-> errmsg]

TransportError == Reply("error", FALSE, "none", Undef, Undef)

\* The texts a vision reply may carry as its content.
PrimaryContents ==
  {<<"{", "d", "c", "sA", "t", "p", "}">>,
   <<"w", "{", "d", "c", "sA", "t", "p", "}", "w">>,
   <<"{", "d", "sA", "}">>,
   <<"{", "dn", "cs", "sA", "t", "p", "}">>,
   <<"{", "d", "c", "sA", "t", "p", "fm", "}">>,
   <<"{", "d", "c", "sA", "t", "p", "lg", "ag", "ts", "}">>,
   <<"{", "d", "sS", "sA", "}">>,
   <<"{", "d", "c", "sS", "t", "p", "}">>,
   <<"{", "d", "c", "t", "p", "}">>,
   <<"{", "c", "sA", "t", "p", "}">>,
   <<"{", "d0", "c", "sA", "t", "p", "}">>,
   <<"w", "{", "d", "sS", "}">>,
   <<"null">>,
   <<"5">>,
   <<"w", "w">>,
   <<"{", "d", "sA">>,
   <<"{", "d", "}", "w", "{", "sA", "}">>,
   <<"w", "{", "w", "}">>,
   <<"{", "d", "sA", "}", "w", "}">>,
   <<"}", "w", "{">>}

ErrorMessages ==
  {Undef,
   Num(429),
   Str(<<"model", "does", "not", "support", "image", "input">>),
   Str(<<"vision", "unavailable">>),
   Str(<<"rate", "limit", "reached">>)}

PrimaryReplies ==
  {TransportError}
    \cup {Reply("http", ok, j, Undef, Undef) :
            ok \in BOOLEAN, j \in {"unparseable", "null"}}
    \cup {Reply("http", FALSE, "object", Undef, m) : m \in ErrorMessages}
    \cup {Reply("http", TRUE, "object", c, Undef) :
            c \in {Undef, Str(<<>>)} \cup {Str(x) : x \in PrimaryContents}}

\* The replies of the two text-only completions.
TextReplies(text) ==
  {TransportError}
    \cup {Reply("http", ok, j, Undef, Undef) :
            ok \in BOOLEAN, j \in {"unparseable", "null"}}
    \cup {Reply("http", FALSE, "object", Undef, m) :
            m \in {Undef, Str(<<"rate", "limit", "reached">>)}}
    \cup {Reply("http", TRUE, "object", c, Undef) :
            c \in {Undef, Str(<<>>), Str(text)}}

NarrativeReplies == TextReplies(<<"spray", "copper", "fungicide">>)

FallbackReplies == TextReplies(<<"inspect", "leaves", "weekly">>)

Times == 1..MaxTime

\* new Date().toISOString()
ToISOString(now) == Str(<<"2026-01-01T00:00", ToString(now)>>)

\* ---------------------------------------------------------- route state
VARIABLES
  rpc,          \* where the POST handler is suspended: "idle", "primary",
                \* "narrative", "fallback" (awaiting that call) or "done"
  request,      \* the body of the request being served
  groqApiKey,   \* the handler's local `groqApiKey`, read from
                \* process.env.GROQ_API_KEY at line 11
  language,     \* the handler's local `language`
  analysis,     \* the handler's local `analysis` once validated
  calls,        \* the upstream calls made for this request, in order
  replies,      \* the reply each of them got, in order
  fallbackVia,  \* how getFallbackAnalysis was entered: "none",
                \* "capability" (line 69) or "catch" (line 146)
  response      \* the response returned: its status (0: none yet) and body


routeVars ==
  <<rpc, request, groqApiKey, language, analysis, calls, replies,
    fallbackVia, response>>

\* ---------------------------------------------------------- modal state
VARIABLES
  isOpen,            \* the isOpen prop
  opens,             \* history: how many times the modal was opened
  messages,          \* useState: the transcript
  input,             \* useState: the input field
  isLoading,         \* useState: the busy flag
  isMuted,           \* useState: the mute flag
  isListening,       \* useState: the listening flag
  recognitionError,  \* useState: the recognition error shown
  recognitionRef,    \* recognitionRef.current: whether a recognizer exists
                     \* and the isLoading / isMuted its handlers' copy of
                     \* submitMessage closed over
  engine,            \* the recognizer: "idle", "starting" (start() called,
                     \* onstart not yet delivered), "listening", "stopping"
                     \* (stop() called), "ending" (onend not yet delivered)
  timers,            \* the pending setTimeout callbacks of onresult
  pending,           \* the calls of submitMessage suspended on their fetch
  clock,             \* Date.now()
  spoken,            \* the texts passed to speechSynthesis.speak
  accepted,          \* history: the text of each accepted submission
  owners,            \* history: the submission that appended each message
  settled            \* history: how the promise of each call of
                     \* submitMessage that reached its fetch settled

modalVars ==
  <<isOpen, opens, messages, input, isLoading, isMuted, isListening, recognitionError,
    recognitionRef, engine, timers, pending, clock, spoken, accepted, owners,
    settled>>

NoResponse == [status |-> 0, body |-> NoObj]

\* NextResponse.json(body, { status })
NextResponseJson(body, status) == [status |-> status, body |-> body]

RouteInit ==
  /\ rpc = "idle"
  /\ request = Parsed("throw", NoObj)
  /\ groqApiKey = Undef
  /\ language = Undef
  /\ analysis = NoObj
  /\ calls = <<>>
  /\ replies = <<>>
  /\ fallbackVia = "none"
  /\ response = NoResponse

\* language === 'hi' ? 'Hindi' : language === 'kn' ? 'Kannada' : 'English'
LanguageName(lang) ==
  IF lang = Str(<<"hi">>) THEN "Hindi"
  ELSE IF lang = Str(<<"kn">>) THEN "Kannada"
  ELSE "English"

\* One fetch of the chat-completions endpoint: the model asked, the language
\* named in the system prompt ("" when it has none) and the variable part
\* of the user prompt.
Call(kind, model, lang, user) ==
  [kind |-> kind, model |-> model, lang |-> lang, user |-> user]

VisionCall(image) ==
  Call("vision", "meta-llama/llama-4-scout-17b-16e-instruct", "", ToText(image))

NarrativeCall(an, lang) ==
  Call("narrative", "llama-3.3-70b-versatile", LanguageName(lang),
       <<"Disease:">> \o ToText(Get(an, "disease"))
         \o <<"Symptoms:">> \o Join(Get(an, "symptoms").a))

FallbackCall(lang) ==
  Call("fallback", "llama-3.3-70b-versatile", LanguageName(lang), <<>>)

\* The outer catch of POST.
UnavailableBody(details) ==
  [k \in {"error", "details"} |->
     IF k = "error"
     THEN Str(<<"Analysis", "service", "temporarily", "unavailable">>)
     ELSE Str(details)]

ErrorBody(text) == [k \in {"error"} |-> Str(text)]

\* Mutant of ValidateRequest: the credential is checked before the image.
ValidateRequest_KeyFirst(imageBase64, key) ==
  IF ~Truthy(key) THEN 500
  ELSE IF ~Truthy(imageBase64) THEN 400
  ELSE 0

\* Mutant of ValidateRequest: the credential is not checked.
ValidateRequest_NoKeyCheck(imageBase64, key) ==
  IF ~Truthy(imageBase64) THEN 400
  ELSE 0

\* Lines 7-14: the status of the rejection, 0 when the request passes.  The
\* image is checked before the credential.
ValidateRequest(imageBase64, key) ==
  IF ~Truthy(imageBase64) THEN 400
  ELSE IF ~Truthy(key) THEN 500
  ELSE 0

\* POST up to its first await of an upstream call, with the request's body
\* and the value of process.env.GROQ_API_KEY: read the body, validate the
\* image and the credential, issue the vision call.
POST(body, key) ==
  /\ rpc = "idle"
  /\ request' = body
  /\ groqApiKey' = key
  /\ UNCHANGED <<analysis, replies, fallbackVia>>
  /\ UNCHANGED modalVars
  /\ IF body.kind = "throw"
     THEN /\ response' = NextResponseJson(
                           UnavailableBody(<<"Unexpected", "token">>), 500)
          /\ rpc' = "done"
          /\ UNCHANGED <<language, calls>>
     ELSE IF body.kind = "null"
     THEN /\ response' = NextResponseJson(
                           UnavailableBody(<<"Cannot", "destructure">>), 500)
          /\ rpc' = "done"
          /\ UNCHANGED <<language, calls>>
     ELSE LET imageBase64 == Get(body.obj, "imageBase64")
              lang == IF Get(body.obj, "language") = Undef
                      THEN Str(<<"en">>)
                      ELSE Get(body.obj, "language")
          IN /\ language' = lang
             /\ IF ValidateRequest(imageBase64, key) = 400
                THEN /\ response' = NextResponseJson(
                                      ErrorBody(<<"No", "image", "provided">>), 400)
                     /\ rpc' = "done"
                     /\ UNCHANGED calls
                ELSE IF ValidateRequest(imageBase64, key) = 500
                THEN /\ response' = NextResponseJson(
                                      ErrorBody(<<"Groq", "API", "key", "not",
                                                  "configured">>), 500)
                     /\ rpc' = "done"
                     /\ UNCHANGED calls
                ELSE /\ calls' = Append(calls, VisionCall(imageBase64))
                     /\ rpc' = "primary"
                     /\ UNCHANGED response

\* The two parse attempts of lines 82-92 on the reply's content.
ParseAnalysis(analysisContent) ==
  LET direct == JSONparse(analysisContent)
      jsonMatch == MatchBraces(analysisContent)
  IN IF direct.kind # "throw" THEN direct
     ELSE IF jsonMatch # <<>> THEN JSONparse(jsonMatch)
     ELSE Parsed("throw", NoObj)

\* Mutant of ValidStructure: disease is not required.
ValidStructure_NoDiseaseCheck(parsed) ==
  /\ parsed.kind \notin {"throw", "null"}
  /\ IsArray(Get(parsed.obj, "symptoms"))

\* Mutant of ValidStructure: symptoms is not required to be an array.
ValidStructure_NoArrayCheck(parsed) ==
  /\ parsed.kind \notin {"throw", "null"}
  /\ Truthy(Get(parsed.obj, "disease"))

\* Lines 94-96; reading a property of null throws a TypeError instead.
ValidStructure(parsed) ==
  /\ parsed.kind \notin {"throw", "null"}
  /\ Truthy(Get(parsed.obj, "disease"))
  /\ IsArray(Get(parsed.obj, "symptoms"))

\* Mutant of PrimaryOutcome: a reply without content is not an error, the
\* flow goes on to the narrative call.
PrimaryOutcome_ContentOptional(r) ==
  IF r.net = "error" THEN "catch"
  ELSE IF ~r.ok
  THEN IF r.json # "object" THEN "catch"
       ELSE IF /\ r.errmsg.t = "str"
               /\ \/ Includes(r.errmsg.s, "image")
                  \/ Includes(r.errmsg.s, "vision")
       THEN "capability"
       ELSE "catch"
  ELSE IF r.json # "object" THEN "catch"
  ELSE IF ~Truthy(r.content) THEN "narrative"
  ELSE IF ValidStructure(ParseAnalysis(r.content.s)) THEN "narrative"
  ELSE "catch"

\* Lines 62-96 on the vision reply r: "narrative" when the reply parsed and
\* passed validation, "capability" for the return of line 69, "catch" when
\* anything threw into the catch of line 144.
PrimaryOutcome(r) ==
  IF r.net = "error" THEN "catch"
  ELSE IF ~r.ok
  THEN IF r.json # "object" THEN "catch"
       ELSE IF /\ r.errmsg.t = "str"
               /\ \/ Includes(r.errmsg.s, "image")
                  \/ Includes(r.errmsg.s, "vision")
       THEN "capability"
       ELSE "catch"
  ELSE IF r.json # "object" THEN "catch"
  ELSE IF ~Truthy(r.content) THEN "catch"
  ELSE IF ValidStructure(ParseAnalysis(r.content.s)) THEN "narrative"
  ELSE "catch"

\* The vision call returns: lines 60-131, up to the next await.
PrimaryReturns(r) ==
  /\ rpc = "primary"
  /\ replies' = Append(replies, r)
  /\ UNCHANGED <<request, groqApiKey, language, response>>
  /\ UNCHANGED modalVars
  /\ LET outcome == PrimaryOutcome(r)
     IN IF outcome = "narrative"
        THEN /\ analysis' = ParseAnalysis(r.content.s).obj
             /\ calls' = Append(calls, NarrativeCall(analysis', language))
             /\ rpc' = "narrative"
             /\ UNCHANGED fallbackVia
        ELSE /\ calls' = Append(calls, FallbackCall(language))
             /\ rpc' = "fallback"
             /\ fallbackVia' = outcome
             /\ UNCHANGED analysis

\* Mutant of EnhancedAnalysis: the reply's members are spread last, so they
\* win over the computed ones.
EnhancedAnalysis_SpreadLast(an, treatmentContent, now, lang) ==
  Spread([k \in {"aiGeneratedTreatment", "analysisTimestamp", "language"} |->
            CASE k = "aiGeneratedTreatment" ->
                   IF Truthy(treatmentContent) THEN treatmentContent ELSE Str(<<>>)
              [] k = "analysisTimestamp" -> ToISOString(now)
              [] OTHER -> lang],
         an)

\* Lines 136-141.
EnhancedAnalysis(an, treatmentContent, now, lang) ==
  Spread(an,
         [k \in {"aiGeneratedTreatment", "analysisTimestamp", "language"} |->
            CASE k = "aiGeneratedTreatment" ->
                   IF Truthy(treatmentContent) THEN treatmentContent ELSE Str(<<>>)
              [] k = "analysisTimestamp" -> ToISOString(now)
              [] OTHER -> lang])

\* Mutant of NarrativeThrows: the narrative step always ends in the catch
\* block, so the fallback call follows a narrative that succeeded.
NarrativeThrows_Always(r) == TRUE

\* Whether lines 101-134 throw on the narrative reply r (a rejected fetch,
\* a body that is not JSON, or the JSON null).
NarrativeThrows(r) == r.net = "error" \/ r.json # "object"

\* The narrative call returns: lines 131-147.
NarrativeReturns(r, now) ==
  /\ rpc = "narrative"
  /\ replies' = Append(replies, r)
  /\ UNCHANGED <<request, groqApiKey, language, analysis>>
  /\ UNCHANGED modalVars
  /\ IF NarrativeThrows(r)
     THEN /\ calls' = Append(calls, FallbackCall(language))
          /\ rpc' = "fallback"
          /\ fallbackVia' = "catch"
          /\ UNCHANGED response
     ELSE /\ response' = NextResponseJson(
                           EnhancedAnalysis(analysis, r.content, now, language), 200)
          /\ rpc' = "done"
          /\ UNCHANGED <<calls, fallbackVia>>

\* Lines 195-206.
GuidanceAnalysis(guidanceContent, now, lang) ==
  [k \in {"disease", "confidence", "description", "symptoms", "treatment",
          "prevention", "aiGeneratedTreatment", "fallbackMode",
          "analysisTimestamp", "language"} |->
     CASE k = "disease" -> Str(<<"Analysis", "Service", "-", "Use", "Guidance">>)
       [] k = "confidence" -> Num(60)
       [] k = "description" -> Str(<<"Direct", "image", "analysis", "is",
                                     "temporarily", "unavailable">>)
       [] k = "symptoms" -> Arr(<< <<"Image", "upload", "successful">>,
                                   <<"Please", "use", "the", "recommendations">> >>)
       [] k = "treatment" -> Arr(<< <<"Upload", "a", "clear", "image">>,
                                    <<"Include", "healthy", "parts">>,
                                    <<"Ensure", "good", "focus">> >>)
       [] k = "prevention" -> Arr(<< <<"Contact", "local", "Agricultural",
                                       "Department">> >>)
       [] k = "aiGeneratedTreatment" ->
            IF Truthy(guidanceContent) THEN guidanceContent
            ELSE Str(<<"Please", "try", "uploading", "your", "image", "again">>)
       [] k = "fallbackMode" -> Bool(TRUE)
       [] k = "analysisTimestamp" -> ToISOString(now)
       [] OTHER -> lang]

\* Lines 209-219.
UnavailableAnalysis(now) ==
  [k \in {"disease", "confidence", "description", "symptoms", "treatment",
          "prevention", "aiGeneratedTreatment", "fallbackMode",
          "analysisTimestamp"} |->
     CASE k = "disease" -> Str(<<"Service", "Temporarily", "Unavailable">>)
       [] k = "confidence" -> Num(0)
       [] k = "description" -> Str(<<"The", "service", "is", "currently",
                                     "unavailable">>)
       [] k = "symptoms" -> Arr(<< <<"Service", "error">> >>)
       [] k = "treatment" -> Arr(<< <<"Try", "uploading", "again">>,
                                    <<"Contact", "your", "local", "Agricultural",
                                      "Department">> >>)
       [] k = "prevention" -> Arr(<<>>)
       [] k = "aiGeneratedTreatment" -> Str(<<"contact", "your", "nearest", "KVK">>)
       [] k = "fallbackMode" -> Bool(TRUE)
       [] OTHER -> ToISOString(now)]

\* Whether the try block of getFallbackAnalysis throws on the reply r.
FallbackThrows(r) == r.net = "error" \/ r.json # "object"

\* Mutant of getFallbackAnalysis: its catch block rethrows, and the outer
\* catch of POST answers.
getFallbackAnalysis_Rethrows(r, now, lang) ==
  IF FallbackThrows(r)
  THEN NextResponseJson(UnavailableBody(<<"fetch", "failed">>), 500)
  ELSE NextResponseJson(GuidanceAnalysis(r.content, now, lang), 200)

\* getFallbackAnalysis from the return of its fetch on.
getFallbackAnalysis(r, now, lang) ==
  IF FallbackThrows(r)
  THEN NextResponseJson(UnavailableAnalysis(now), 200)
  ELSE NextResponseJson(GuidanceAnalysis(r.content, now, lang), 200)

\* The fallback call returns: lines 192-220, and POST returns its result.
FallbackReturns(r, now) ==
  /\ rpc = "fallback"
  /\ replies' = Append(replies, r)
  /\ response' = getFallbackAnalysis(r, now, language)
  /\ rpc' = "done"
  /\ UNCHANGED <<request, groqApiKey, language, analysis, calls, fallbackVia>>
  /\ UNCHANGED modalVars

\* The next request arrives: a new invocation of POST starts afresh.
NextRequest ==
  /\ rpc = "done"
  /\ rpc' = "idle"
  /\ request' = Parsed("throw", NoObj)
  /\ language' = Undef
  /\ analysis' = NoObj
  /\ calls' = <<>>
  /\ replies' = <<>>
  /\ fallbackVia' = "none"
  /\ response' = NoResponse
  /\ groqApiKey' = Undef
  /\ UNCHANGED modalVars

RouteNext ==
  \/ \E body \in RequestBodies, key \in ApiKeys : POST(body, key)
  \/ \E r \in PrimaryReplies : PrimaryReturns(r)
  \/ \E r \in NarrativeReplies, now \in Times : NarrativeReturns(r, now)
  \/ \E r \in FallbackReplies, now \in Times : FallbackReturns(r, now)
  \/ NextRequest

\* =============================================== the chat / voice modal
\* The number of submissions a session accepts in the model.
MaxSubmissions == 2

\* The largest value Date.now() takes in the model.
MaxClock == 1

\* The number of auto-submit timers that may be pending together.
MaxTimers == 1

\* The number of times the parent opens the modal in the model.
MaxOpens == 1

\* text.trim(): the text without its leading and trailing blanks " ".
RECURSIVE TrimStart(_)
TrimStart(text) ==
  IF text # <<>> /\ Head(text) = " " THEN TrimStart(Tail(text)) ELSE text

RECURSIVE TrimEnd(_)
TrimEnd(text) ==
  IF text # <<>> /\ text[Len(text)] = " "
  THEN TrimEnd(SubSeq(text, 1, Len(text) - 1))
  ELSE text

Trim(text) == TrimEnd(TrimStart(text))

\* What the user types and what the recognizer hears.
TypedTexts == {<<>>, <<" ">>, <<" ", "rain", " ">>}

Transcripts == {<<" ">>, <<" ", "pest", "help">>}

\* The replies of /api/groq-query: as Reply above, with content the
\* `response` member of the body.
ChatReplies ==
  {TransportError,
   Reply("http", FALSE, "object", Undef, Undef),
   Reply("http", TRUE, "unparseable", Undef, Undef),
   Reply("http", TRUE, "null", Undef, Undef)}
    \cup {Reply("http", TRUE, "object", c, Undef) :
            c \in {Undef, Str(<<>>), Str(<<"water", "daily">>)}}

RecognitionErrors == {<<"Error:", "no-speech">>}

NoRecognition == [exists |-> FALSE, isLoading |-> FALSE, isMuted |-> FALSE]

\* Whether the browser has SpeechRecognition is not modelled as varying: it
\* has (line 275).
ModalInit ==
  /\ isOpen = FALSE
  /\ opens = 0
  /\ messages = <<>>
  /\ input = <<>>
  /\ isLoading = FALSE
  /\ isMuted = FALSE
  /\ isListening = FALSE
  /\ recognitionError = <<>>
  /\ recognitionRef = NoRecognition
  /\ engine = "idle"
  /\ timers = {}
  /\ pending = {}
  /\ clock = 0
  /\ spoken = <<>>
  /\ accepted = <<>>
  /\ owners = <<>>
  /\ settled = {}

\* A Message (lines 246-251); id is a number's decimal string.
Message(id, role, content, timestamp) ==
  [id |-> ToString(id), role |-> role, content |-> content, timestamp |-> timestamp]

\* Line 361: whether submitMessage returns at once, given the isLoading its
\* closure holds.
Suppressed(messageText, closureLoading) ==
  Trim(messageText) = <<>> \/ closureLoading

\* submitMessage up to its await of fetch (lines 360-383), called through a
\* closure holding closureLoading and closureMuted.
submitMessage(messageText, closureLoading, closureMuted) ==
  IF Suppressed(messageText, closureLoading)
  THEN UNCHANGED <<messages, input, isLoading, pending, accepted, owners>>
  ELSE /\ Len(accepted) < MaxSubmissions
       /\ messages' = Append(messages, Message(clock, "user", messageText, clock))
       /\ input' = <<>>
       /\ isLoading' = TRUE
       /\ pending' = pending \cup
            {[sub |-> Len(accepted) + 1, text |-> messageText, isMuted |-> closureMuted]}
       /\ accepted' = Append(accepted, messageText)
       /\ owners' = Append(owners, Len(accepted) + 1)

\* onChange of the input (line 531); the field is disabled while loading.
SetInput(text) ==
  /\ isOpen /\ ~isLoading
  /\ input' = text
  /\ UNCHANGED <<isOpen, opens, messages, isLoading, isMuted, isListening,
                 recognitionError, recognitionRef, engine, timers, pending,
                 clock, spoken, accepted, owners, settled>>
  /\ UNCHANGED routeVars

\* handleSendMessage (lines 419-421), from the send button or the Enter key
\* of the input, both disabled while loading: the current render's
\* submitMessage, which closes over the current isLoading and isMuted.
handleSendMessage ==
  /\ isOpen /\ ~isLoading
  /\ submitMessage(input, isLoading, isMuted)
  /\ UNCHANGED <<isOpen, opens, isMuted, isListening, recognitionError, recognitionRef,
                 engine, timers, clock, spoken, settled>>
  /\ UNCHANGED routeVars

\* Whether the try block of lines 374-404 throws on the reply r.
ChatThrows(r) == r.net = "error" \/ ~r.ok \/ r.json # "object"

\* Mutant of ReplyTurns: an exception after the reply's turn was appended
\* (speech playback failing) reaches the catch block, which appends the
\* apology as well.
ReplyTurns_ApologyToo(r, now) ==
  IF ChatThrows(r)
  THEN <<Message(now + 2, "assistant",
                 <<"Sorry,", "there", "was", "an", "error.", "Please", "try", "again.">>, now)>>
  ELSE <<Message(now + 1, "assistant",
                 IF Truthy(r.content) THEN r.content.s
                 ELSE <<"No", "response", "from", "AI">>, now),
         Message(now + 2, "assistant",
                 <<"Sorry,", "there", "was", "an", "error.", "Please", "try", "again.">>, now)>>

\* The assistant turns one reply appends (lines 392-399 and 407-413).
ReplyTurns(r, now) ==
  IF ChatThrows(r)
  THEN <<Message(now + 2, "assistant",
                 <<"Sorry,", "there", "was", "an", "error.", "Please", "try", "again.">>, now)>>
  ELSE <<Message(now + 1, "assistant",
                 IF Truthy(r.content) THEN r.content.s
                 ELSE <<"No", "response", "from", "AI">>, now)>>

\* Lines 402-404: the texts spoken for the reply r, the closure that made
\* the call holding closureMuted.
SpokenFor(r, closureMuted) ==
  IF ~ChatThrows(r) /\ ~closureMuted /\ Truthy(r.content)
  THEN <<r.content.s>>
  ELSE <<>>

\* Mutant of Settlement: the try block has no catch clause, so what it
\* throws rejects the promise.
Settlement_NoCatch(r) ==
  CASE ChatThrows(r) -> "rejected"
    [] OTHER -> "fulfilled"

\* How the promise returned by submitMessage settles on the reply r: what
\* the try block throws is caught at line 405, and neither the catch block
\* (a console.error and a setMessages) nor the finally block throws.
Settlement(r) ==
  CASE ChatThrows(r) -> "fulfilled"
    [] OTHER -> "fulfilled"

\* The fetch of the suspended call p settles with r: lines 385-416.
ReplyArrives(p, r) ==
  /\ p \in pending
  /\ pending' = pending \ {p}
  /\ settled' = settled \cup {[sub |-> p.sub, how |-> Settlement(r)]}
  /\ messages' = messages \o ReplyTurns(r, clock)
  /\ owners' = owners \o [i \in 1..Len(ReplyTurns(r, clock)) |-> p.sub]
  /\ spoken' = spoken \o SpokenFor(r, p.isMuted)
  /\ isLoading' = FALSE
  /\ UNCHANGED <<isOpen, opens, input, isMuted, isListening, recognitionError,
                 recognitionRef, engine, timers, clock, accepted>>
  /\ UNCHANGED routeVars

\* The mute button (lines 557-565).
ToggleMute ==
  /\ isOpen
  /\ isMuted' = ~isMuted
  /\ UNCHANGED <<isOpen, opens, messages, input, isLoading, isListening,
                 recognitionError, recognitionRef, engine, timers, pending,
                 clock, spoken, accepted, owners, settled>>
  /\ UNCHANGED routeVars

\* The parent opens the modal: the effect of lines 271-339 builds a
\* recognizer whose handlers close over this render's submitMessage.
Open ==
  /\ ~isOpen
  /\ opens < MaxOpens
  /\ isOpen' = TRUE
  /\ opens' = opens + 1
  /\ recognitionRef' = [exists |-> TRUE, isLoading |-> isLoading, isMuted |-> isMuted]
  /\ engine' = "idle"
  /\ UNCHANGED <<messages, input, isLoading, isMuted, isListening,
                 recognitionError, timers, pending, clock, spoken, accepted, owners, settled>>
  /\ UNCHANGED routeVars

\* The parent closes the modal: the effect's cleanup aborts the recognizer
\* (lines 334-338), whose onend handler clears the listening flag; the
\* component stays mounted and renders nothing (line 459).
Close ==
  /\ isOpen
  /\ isOpen' = FALSE
  /\ UNCHANGED opens
  /\ engine' = "idle"
  /\ isListening' = FALSE
  /\ UNCHANGED <<messages, input, isLoading, isMuted, recognitionError,
                 recognitionRef, timers, pending, clock, spoken, accepted, owners, settled>>
  /\ UNCHANGED routeVars

\* handleVoiceClick (lines 423-441).
handleVoiceClick ==
  /\ isOpen
  /\ IF ~recognitionRef.exists
     THEN UNCHANGED <<engine, isListening, recognitionError>>
     ELSE IF isListening
     THEN /\ engine' = IF engine \in {"starting", "listening"} THEN "stopping" ELSE engine
          /\ isListening' = FALSE
          /\ UNCHANGED recognitionError
     ELSE IF engine # "idle"
     THEN /\ recognitionError' = <<"Could", "not", "start", "recording.", "Please", "try", "again.">>
          /\ UNCHANGED <<engine, isListening>>
     ELSE /\ engine' = "starting"
          /\ UNCHANGED <<isListening, recognitionError>>
  /\ UNCHANGED <<isOpen, opens, messages, input, isLoading, isMuted, recognitionRef,
                 timers, pending, clock, spoken, accepted, owners, settled>>
  /\ UNCHANGED routeVars

\* recognition.onstart (lines 287-291).
onstart ==
  /\ engine = "starting"
  /\ engine' = "listening"
  /\ isListening' = TRUE
  /\ recognitionError' = <<>>
  /\ UNCHANGED <<isOpen, opens, messages, input, isLoading, isMuted, recognitionRef,
                 timers, pending, clock, spoken, accepted, owners, settled>>
  /\ UNCHANGED routeVars

\* recognition.onresult (lines 293-314) with the transcript heard.
onresult(finalTranscript) ==
  /\ engine \in {"listening", "stopping"}
  /\ engine' = "ending"
  /\ IF Trim(finalTranscript) # <<>>
     THEN /\ Cardinality(timers) < MaxTimers
          /\ input' = Trim(finalTranscript)
          /\ timers' = timers \cup
               {[text |-> Trim(finalTranscript),
                 isLoading |-> recognitionRef.isLoading,
                 isMuted |-> recognitionRef.isMuted]}
     ELSE UNCHANGED <<input, timers>>
  /\ isListening' = FALSE
  /\ UNCHANGED <<isOpen, opens, messages, isLoading, isMuted, recognitionError,
                 recognitionRef, pending, clock, spoken, accepted, owners, settled>>
  /\ UNCHANGED routeVars

\* recognition.onerror (lines 316-320).
onerror(error) ==
  /\ engine \in {"starting", "listening", "stopping"}
  /\ engine' = "ending"
  /\ recognitionError' = error
  /\ isListening' = FALSE
  /\ UNCHANGED <<isOpen, opens, messages, input, isLoading, isMuted, recognitionRef,
                 timers, pending, clock, spoken, accepted, owners, settled>>
  /\ UNCHANGED routeVars

\* recognition.onend (lines 322-325).
onend ==
  /\ engine \in {"listening", "stopping", "ending"}
  /\ engine' = "idle"
  /\ isListening' = FALSE
  /\ UNCHANGED <<isOpen, opens, messages, input, isLoading, isMuted, recognitionError,
                 recognitionRef, timers, pending, clock, spoken, accepted, owners, settled>>
  /\ UNCHANGED routeVars

\* The 300 ms timer of onresult fires (lines 308-310): the submitMessage the
\* handler closed over is called with the transcript.
TimerFires(timer) ==
  /\ timer \in timers
  /\ timers' = timers \ {timer}
  /\ submitMessage(timer.text, timer.isLoading, timer.isMuted)
  /\ UNCHANGED <<isOpen, opens, isMuted, isListening, recognitionError, recognitionRef,
                 engine, clock, spoken, settled>>
  /\ UNCHANGED routeVars

\* Time passes.
Tick ==
  /\ clock < MaxClock
  /\ clock' = clock + 1
  /\ UNCHANGED <<isOpen, opens, messages, input, isLoading, isMuted, isListening,
                 recognitionError, recognitionRef, engine, timers, pending,
                 spoken, accepted, owners, settled>>
  /\ UNCHANGED routeVars

ModalNext ==
  \/ Open
  \/ Close
  \/ \E text \in TypedTexts : SetInput(text)
  \/ handleSendMessage
  \/ \E p \in pending, r \in ChatReplies : ReplyArrives(p, r)
  \/ ToggleMute
  \/ handleVoiceClick
  \/ onstart
  \/ \E t \in Transcripts : onresult(t)
  \/ \E e \in RecognitionErrors : onerror(e)
  \/ onend
  \/ \E timer \in timers : TimerFires(timer)
  \/ Tick

\* ------------------------------------------------------- specifications
vars == <<routeVars, modalVars>>

Init == RouteInit /\ ModalInit

\* The route serving requests.
Next == RouteNext

Spec == Init /\ [][Next]_vars

\* One session of the modal.
ModalSpec == Init /\ [][ModalNext]_vars

\* The route when every upstream fetch settles: it resolves or rejects, no
\* call stays pending for ever.
FairSpec ==
  /\ Spec
  /\ WF_vars(\E r \in PrimaryReplies : PrimaryReturns(r))
  /\ WF_vars(\E r \in NarrativeReplies, now \in Times : NarrativeReturns(r, now))
  /\ WF_vars(\E r \in FallbackReplies, now \in Times : FallbackReturns(r, now))


\* ============================================================== claims
\* The reply of the vision call, once it has returned.
PrimaryReplied == Len(replies) >= 1

PrimaryReply == replies[1]

\* The vision reply carried a text as its content.
PrimaryHasContent ==
  /\ PrimaryReplied
  /\ PrimaryReply.net = "http" /\ PrimaryReply.ok
  /\ PrimaryReply.json = "object"
  /\ Truthy(PrimaryReply.content)

\* A narrative call was made, and has returned.
NarrativeCalled == \E i \in 1..Len(calls) : calls[i].kind = "narrative"

NarrativeReplied == Len(calls) >= 2 /\ calls[2].kind = "narrative" /\ Len(replies) >= 2

NarrativeReply == replies[2]

FallbackCalls == {i \in 1..Len(calls) : calls[i].kind = "fallback"}

\* The fallback call's reply, once it has returned (it is the last call).
FallbackReplied == FallbackCalls # {} /\ Len(replies) = Len(calls)

FallbackReply == replies[Len(replies)]

Returned == rpc = "done"

FallbackModeTrue == Get(response.body, "fallbackMode") = Bool(TRUE)

Rejected400 ==
  response = NextResponseJson(ErrorBody(<<"No", "image", "provided">>), 400)

Rejected500 ==
  response = NextResponseJson(
               ErrorBody(<<"Groq", "API", "key", "not", "configured">>), 500)

BodyReadable == request.kind \notin {"throw", "null"}

NarrativeFailed ==
  /\ NarrativeReplied
  /\ \/ NarrativeReply.net = "error"
     \/ ~NarrativeReply.ok
     \/ NarrativeReply.json # "object"

\* C2 as stated: when the vision reply parsed and passed validation and the
\* narrative call then fails in any way, the response is 200 with the
\* disease, symptoms and treatment of the vision reply and an empty or
\* absent aiGeneratedTreatment, and no fallback response replaces it.
C2_NarrativeFailureKeepsPrimary ==
  (Returned /\ NarrativeFailed)
    => /\ response.status = 200
       /\ fallbackVia = "none"
       /\ \A k \in {"disease", "symptoms", "treatment"} :
            Get(response.body, k) = Get(ParseAnalysis(PrimaryReply.content.s).obj, k)
       /\ ~Truthy(Get(response.body, "aiGeneratedTreatment"))

\* A text that does not parse as JSON directly and whose span from its
\* first "{" to its last "}", if it has one, does not parse either.
Unparseable(text) ==
  /\ JSONparse(text).kind = "throw"
  /\ \A i, j \in 1..Len(text) :
       ( /\ i < j
         /\ text[i] = "{" /\ \A h \in 1..(i - 1) : text[h] # "{"
         /\ text[j] = "}" /\ \A h \in (j + 1)..Len(text) : text[h] # "}" )
       => JSONparse(SubSeq(text, i, j)).kind = "throw"

\* The flow did not return a primary analysis: no narrative call was made,
\* the fallback call was, and a returned response has fallbackMode true.
FellBack ==
  /\ ~NarrativeCalled
  /\ FallbackCalls # {}
  /\ Returned => (response.status = 200 /\ FallbackModeTrue)

\* C3 as stated: every vision reply whose content is not JSON makes the
\* flow fall back.
C3_NotJSONFallsBack ==
  (PrimaryHasContent /\ JSONparse(PrimaryReply.content.s).kind = "throw")
    => FellBack

\* C3 amended: every vision reply whose content neither parses as JSON nor
\* holds a span from its first "{" to its last "}" that parses as JSON makes
\* the flow fall back: no primary analysis is returned and the response has
\* fallbackMode true.
C3_UnparseableFallsBack ==
  (PrimaryHasContent /\ Unparseable(PrimaryReply.content.s)) => FellBack

\* C3 witness: a reply holding a brace span that does not parse was
\* answered from the fallback sub-flow.
C3_Witness ==
  /\ Returned
  /\ PrimaryHasContent
  /\ PrimaryReply.content.s = <<"{", "d", "sA", "}", "w", "}">>
  /\ FallbackModeTrue

\* C4: a vision reply that parses as JSON but has no disease, or whose
\* symptoms is not a sequence, or that is no object at all, is rejected: no
\* narrative call is made, the fallback sub-flow runs and the response has
\* fallbackMode true.
C4_InvalidStructureFallsBack ==
  LET parsed == ParseAnalysis(PrimaryReply.content.s)
  IN ( /\ PrimaryHasContent
       /\ parsed.kind # "throw"
       /\ \/ parsed.kind # "obj"
          \/ "disease" \notin DOMAIN parsed.obj
          \/ ~IsArray(Get(parsed.obj, "symptoms")) )
     => (FellBack /\ fallbackVia = "catch")

\* C4 witness: a JSON reply with a scalar symptoms was answered from the
\* fallback sub-flow.
C4_Witness ==
  /\ Returned
  /\ PrimaryHasContent
  /\ PrimaryReply.content.s = <<"{", "d", "c", "sS", "t", "p", "}">>
  /\ FallbackModeTrue

\* C5 as stated: whenever the fallback call fails by a transport error or a
\* non-2xx reply, the hardcoded 'service unavailable' analysis with
\* confidence 0 is returned and no further call is made.
C5_FailedFallbackIsHardcoded ==
  ( /\ Returned
    /\ FallbackReplied
    /\ (FallbackReply.net = "error" \/ ~FallbackReply.ok) )
    => /\ response.status = 200
       /\ Get(response.body, "disease")
            = Str(<<"Service", "Temporarily", "Unavailable">>)
       /\ Get(response.body, "confidence") = Num(0)
       /\ Cardinality(FallbackCalls) = 1

C7_NoCredentialIs500 ==
  (rpc # "idle" /\ BodyReadable
     /\ Truthy(Get(request.obj, "imageBase64")) /\ ~Truthy(groqApiKey))
    => /\ Returned
       /\ response.status = 500
       /\ DOMAIN response.body = {"error"}
       /\ calls = <<>> /\ replies = <<>>

\* C7 witness: a request with an image was answered 500 with GROQ_API_KEY
\* unset.
C7_Witness ==
  /\ Returned
  /\ Truthy(Get(request.obj, "imageBase64"))
  /\ groqApiKey = Undef
  /\ response.status = 500

\* The narrative call returned a non-empty content.
NarrativeSucceeded ==
  /\ NarrativeReplied
  /\ NarrativeReply.net = "http" /\ NarrativeReply.json = "object"
  /\ Truthy(NarrativeReply.content)

\* C8 as stated: after a valid vision reply and a non-empty narrative, the
\* response is 200 with every field of the vision reply at its value,
\* aiGeneratedTreatment the narrative, and fallbackMode false or absent.
C8_MergeKeepsEveryField ==
  (Returned /\ NarrativeSucceeded)
    => LET reply == ParseAnalysis(PrimaryReply.content.s).obj
       IN /\ response.status = 200
          /\ \A k \in DOMAIN reply : Get(response.body, k) = reply[k]
          /\ Get(response.body, "aiGeneratedTreatment") = NarrativeReply.content
          /\ ~Truthy(Get(response.body, "fallbackMode"))

\* C8 amended: after a valid vision reply and a non-empty narrative, the
\* response is 200 with every field of the vision reply at its value except
\* aiGeneratedTreatment, analysisTimestamp and language, which are set to
\* the narrative content, the time of the merge and the request's language;
\* fallbackMode is absent unless the vision reply carries one, which is
\* passed on unchanged.
C8_MergeKeepsOtherFields ==
  (Returned /\ NarrativeSucceeded)
    => LET reply == ParseAnalysis(PrimaryReply.content.s).obj
       IN /\ response.status = 200
          /\ DOMAIN response.body
               = DOMAIN reply
                   \cup {"aiGeneratedTreatment", "analysisTimestamp", "language"}
          /\ \A k \in DOMAIN reply
                      \ {"aiGeneratedTreatment", "analysisTimestamp", "language"} :
               response.body[k] = reply[k]
          /\ response.body["aiGeneratedTreatment"] = NarrativeReply.content
          /\ response.body["language"] = language
          /\ \E now \in Times : response.body["analysisTimestamp"] = ToISOString(now)

\* C8 witness: a vision reply that itself carries language,
\* aiGeneratedTreatment and analysisTimestamp was merged with a narrative.
C8_Witness ==
  /\ Returned
  /\ NarrativeSucceeded
  /\ PrimaryReply.content.s = <<"{", "d", "c", "sA", "t", "p", "lg", "ag", "ts", "}">>
  /\ response.status = 200

\* C9 as stated: every 200 response is a schema-valid DiseaseAnalysis.
C9_Every200IsSchemaValid ==
  (Returned /\ response.status = 200)
    => /\ Get(response.body, "disease").t = "str"
       /\ Get(response.body, "disease").s # <<>>
       /\ Get(response.body, "confidence").t = "num"
       /\ \A k \in {"symptoms", "treatment", "prevention"} :
            IsArray(Get(response.body, k))
       /\ Get(response.body, "aiGeneratedTreatment").t = "str"


\* The submissions whose call of submitMessage is still suspended.
PendingSubs == {p.sub : p \in pending}

\* The places in the transcript of the turns of role appended by
\* submission k.
TurnsOf(k, role) ==
  {i \in 1..Len(messages) : owners[i] = k /\ messages[i].role = role}

\* C10: every accepted text is non-blank, and its submission adds to the
\* transcript exactly one user turn holding that text and then exactly one
\* assistant turn (none while the reply is awaited), in that order, and
\* nothing else.
C10_OneUserThenOneAssistant ==
  /\ Len(owners) = Len(messages)
  /\ \A i \in 1..Len(messages) : owners[i] \in 1..Len(accepted)
  /\ \A k \in 1..Len(accepted) :
       /\ Trim(accepted[k]) # <<>>
       /\ Cardinality(TurnsOf(k, "user")) = 1
       /\ \A i \in TurnsOf(k, "user") : messages[i].content = accepted[k]
       /\ Cardinality(TurnsOf(k, "assistant")) = IF k \in PendingSubs THEN 0 ELSE 1
       /\ \A i \in TurnsOf(k, "user"), j \in TurnsOf(k, "assistant") : i < j

\* C10 witness: two submissions, one typed with blanks around it and one
\* from the recognizer made while the first awaited its reply, each
\* completed by its assistant turn, one of them the apology.
C10_Witness ==
  /\ Len(accepted) = 2
  /\ pending = {}
  /\ Len(messages) = 4
  /\ messages[1].role = "user" /\ messages[2].role = "user"
  /\ \E i \in 1..4 : messages[i].content = <<" ", "rain", " ">>
  /\ \E i \in 1..4 : messages[i].content = <<"pest", "help">>
  /\ \E i \in 1..4 : messages[i].content = <<"Sorry,", "there", "was", "an", "error.", "Please", "try", "again.">>

\* C11 as stated: at most one chat request is in flight in a session; a
\* submission attempted while an earlier one awaits its reply, from the
\* send button, the Enter key or the recognizer's auto-submit, sends no
\* request and appends no turn.
C11_AtMostOneInFlight == Cardinality(pending) <= 1

\* The fixed apology of line 410.
ApologyText ==
  <<"Sorry,", "there", "was", "an", "error.", "Please", "try", "again.">>

\* The chat request failed: a rejected fetch or a non-2xx response.
ChatFailed(r) == r.net = "error" \/ ~r.ok

\* C12: when the chat request of a submission fails by a transport error or
\* a non-2xx response, that step appends exactly one turn, the assistant's
\* apology with id Date.now() + 2, speaks nothing, clears the busy flag and
\* fulfils the promise of submitMessage: nothing is thrown to the caller.
C12_FailureIsOneApologyTurn ==
  [][\A p \in pending, r \in ChatReplies :
       (ReplyArrives(p, r) /\ ChatFailed(r))
         => /\ Len(messages') = Len(messages) + 1
            /\ messages'[Len(messages')]
                 = Message(clock + 2, "assistant", ApologyText, clock)
            /\ spoken' = spoken
            /\ ~isLoading'
            /\ settled' = settled \cup {[sub |-> p.sub, how |-> "fulfilled"]}]_vars

\* C12 witness: a submission was answered by the apology alone and its
\* promise is fulfilled.
C12_Witness ==
  /\ Len(accepted) = 1
  /\ pending = {}
  /\ Len(messages) = 2
  /\ messages[2].role = "assistant"
  /\ messages[2].content = ApologyText
  /\ settled = {[sub |-> 1, how |-> "fulfilled"]}

\* A step in which the reply of a pending submission arrives.
ReplyStep == \E p \in pending : pending' = pending \ {p}

\* C13 as stated: no reply is spoken while the mute flag is on at its
\* arrival, however the message was submitted and whenever mute was
\* toggled, and the apology is never spoken.
C13_MutedMeansSilent ==
  [][/\ (ReplyStep /\ isMuted) => spoken' = spoken
     /\ \A i \in 1..Len(spoken') : spoken'[i] # ApologyText]_vars

\* C14 as stated: a response that arrives after the modal was closed
\* appends no turn and starts no speech playback.
C14_ClosedIgnoresResponse ==
  [][(ReplyStep /\ ~isOpen) => (messages' = messages /\ spoken' = spoken)]_vars

\* C15 as stated: from listening, a result, a recognition error and an
\* explicit stop each clear the listening flag, and a voice click made
\* while a session started earlier has not ended starts no second session
\* and reports no error.
C15_OneListeningSession ==
  [][/\ (isListening /\ (engine' # engine \/ handleVoiceClick)) => ~isListening'
     /\ (handleVoiceClick /\ engine # "idle")
          => (engine' # "starting" /\ recognitionError' = recognitionError)]_vars

\* C16 as stated: a result with a non-blank transcript puts the trimmed
\* transcript in the input and arms one timer; a blank one arms none; the
\* timer submits exactly that text when no request is in flight and submits
\* nothing when one is.
C16_AutoSubmitSameGuards ==
  [][/\ \A t \in Transcripts :
          onresult(t) =>
            IF Trim(t) # <<>>
            THEN /\ input' = Trim(t)
                 /\ Cardinality(timers') = Cardinality(timers) + 1
                 /\ \A timer \in timers' \ timers : timer.text = Trim(t)
            ELSE timers' = timers /\ input' = input
     /\ \A timer \in timers :
          TimerFires(timer) =>
            IF pending # {}
            THEN messages' = messages /\ pending' = pending
            ELSE /\ accepted' = Append(accepted, timer.text)
                 /\ Cardinality(pending') = 1]_vars

\* C19 as stated: the busy flag is set exactly when a chat request is in
\* flight.
C19_LoadingIffInFlight == isLoading <=> (pending # {})

\* The error message of a non-2xx vision reply names 'image' or 'vision'.
CapabilityError(r) ==
  /\ r.net = "http" /\ ~r.ok /\ r.json = "object"
  /\ r.errmsg.t = "str"
  /\ \E i \in 1..Len(r.errmsg.s) : r.errmsg.s[i] \in {"image", "vision"}

\* C17: whenever the vision call fails (a transport error, a non-2xx reply
\* with any message or none, a body that cannot be read, a reply without
\* content), no narrative call is made, the fallback call is made exactly
\* once, entered from line 69 for a capability error and from the catch of
\* line 144 otherwise, and the response, once returned, is 200 with
\* fallbackMode true.
C17_VisionFailureFallsBackOnce ==
  (PrimaryReplied /\ ~PrimaryHasContent)
    => /\ rpc \in {"fallback", "done"}
       /\ ~NarrativeCalled
       /\ Cardinality(FallbackCalls) = 1
       /\ Len(calls) = 2
       /\ fallbackVia = IF CapabilityError(PrimaryReply) THEN "capability" ELSE "catch"
       /\ Returned => (response.status = 200 /\ FallbackModeTrue)

\* C17 witness: a non-2xx vision reply whose message is about something
\* else than images was answered 200 from the fallback sub-flow.
C17_Witness ==
  /\ Returned
  /\ PrimaryReplied
  /\ PrimaryReply.net = "http" /\ ~PrimaryReply.ok
  /\ PrimaryReply.errmsg = Str(<<"rate", "limit", "reached">>)
  /\ Cardinality(FallbackCalls) = 1
  /\ response.status = 200
  /\ FallbackModeTrue

\* C18: a narrative call is made only as the second call, after the vision
\* call returned a content that parses (directly or by its brace span) to
\* an object with a disease and a symptoms sequence, and its prompt holds
\* that disease and those symptoms joined, in the request's language.
C18_NarrativeOnlyAfterValidation ==
  NarrativeCalled =>
    LET parsed == ParseAnalysis(PrimaryReply.content.s)
    IN /\ PrimaryHasContent
       /\ ~Unparseable(PrimaryReply.content.s)
       /\ parsed.kind = "obj"
       /\ Truthy(Get(parsed.obj, "disease"))
       /\ IsArray(Get(parsed.obj, "symptoms"))
       /\ {i \in 1..Len(calls) : calls[i].kind = "narrative"} = {2}
       /\ calls[1].kind = "vision"
       /\ calls[2].user
            = <<"Disease:">> \o ToText(parsed.obj["disease"])
                \o <<"Symptoms:">> \o Join(parsed.obj["symptoms"].a)
       /\ calls[2].lang = LanguageName(language)

\* C18 witness: the narrative call is awaited for a vision reply that
\* wrapped its JSON in prose, asked in Hindi.
C18_Witness ==
  /\ rpc = "narrative"
  /\ PrimaryReplied
  /\ PrimaryReply.content.s = <<"w", "{", "d", "c", "sA", "t", "p", "}", "w">>
  /\ calls[2].user = <<"Disease:", "Leaf", "Blight", "Symptoms:",
                       "yellow", "spots", ",", "wilting">>
  /\ calls[2].lang = "Hindi"

\* The calls of one kind made for the request.
CallsOf(kind) == {i \in 1..Len(calls) : calls[i].kind = kind}

\* An earlier step failed: the vision step ended without a narrative call,
\* or the narrative call was rejected or returned a body that is no object.
EarlierStepFailed ==
  \/ PrimaryReplied /\ ~NarrativeCalled
  \/ NarrativeReplied /\ (NarrativeReply.net = "error" \/ NarrativeReply.json # "object")

\* The bounds of C20 on the upstream calls of one request.
C20_CallsBounded ==
  /\ Len(calls) <= 3
  /\ \A kind \in {"vision", "narrative", "fallback"} : Cardinality(CallsOf(kind)) <= 1
  /\ \A i \in 1..Len(calls) : calls[i].kind \in {"vision", "narrative", "fallback"}
  /\ CallsOf("vision") \subseteq {1}
  /\ CallsOf("fallback") # {} => (EarlierStepFailed /\ CallsOf("fallback") = {Len(calls)})
  /\ Len(replies) <= Len(calls)
  /\ Returned => Len(replies) = Len(calls)

\* C20: one POST makes the vision call, the narrative call and the fallback
\* call at most once each, three calls at most, the fallback call only
\* after an earlier step failed and as the last call; and, every fetch
\* settling, the POST returns.
C20_AtMostThreeCallsAndReturns ==
  /\ []C20_CallsBounded
  /\ (rpc \in {"primary", "narrative", "fallback"}) ~> Returned

\* C20 witness: a request that made all three calls has returned.
C20_Witness ==
  /\ Returned
  /\ Len(calls) = 3
  /\ calls[1].kind = "vision" /\ calls[2].kind = "narrative" /\ calls[3].kind = "fallback"
  /\ Len(replies) = 3

\* C21 as stated: the ids of the messages of the transcript are pairwise
\* distinct, for any timing of submissions and replies.
C21_DistinctIds ==
  \A i, j \in 1..Len(messages) : i # j => messages[i].id # messages[j].id

====
